---- MODULE Spec2Model ----
(***************************************************************************)
(* A model of rocketmq.go: the RocketHelper wrapper around the RocketMQ    *)
(* client library.  The program state is the two package-level caches      *)
(* (p, pushConsumer) and, per calling goroutine, the frame of the call in  *)
(* progress.  The client library (constructors, Start, Subscribe,          *)
(* SendSync) and the caller's onMessage are the environment: each of their *)
(* results is a nondeterministic choice.                                   *)
(*                                                                         *)
(* Four specifications share the variables:                                *)
(*   Spec        one goroutine calling SendMessage / PushConsume /         *)
(*               PushConsumeByConsumer in sequence                         *)
(*   SpecConc    NumThreads goroutines making the same calls, interleaved  *)
(*               at the granularity of the reads and writes of the caches  *)
(*   SpecHandler the library delivering batches to the subscribe handler   *)
(*   SpecMsg     CreatePublicMessage applied to inputs drawn in Init       *)
(***************************************************************************)
EXTENDS Integers, Sequences, FiniteSets, TLC

\* ------------------------------------------------------------------ bounds
NumThreads == 2      \* goroutines of SpecConc
NumHelpers == 2      \* RocketHelper values, each with its own options
MaxCalls == 3        \* API calls made in one run of Spec
ConcCalls == 2       \* API calls made in one run of SpecConc
MaxBatch == 3        \* messages in one delivered batch
MaxKeys == 2         \* entries of the keys argument

Threads == 1..NumThreads
Helpers == 1..NumHelpers
Main == 1

\* ------------------------------------------------------------------ values
\* A client handle is [id, opts]: opts is the helper whose options built it.
Nil == [id |-> 0, opts |-> 0]
ExtConsumer == [id |-> -1, opts |-> 0]
NoErr == "nil"
NoResult == "nil"
ErrConstruct == "ErrConstruct"
ErrStart == "ErrStart"
ErrCreate == "ErrCreate"
ErrSubscribe == "ErrSubscribe"
ErrSend == "ErrSend"

SendArgs == {[ctx |-> "ctx1", msg |-> "m1"], [ctx |-> "ctx2", msg |-> "m2"]}
NoArgs == [ctx |-> "-", msg |-> "-"]
SubArgs == {[topic |-> "t1", expr |-> "*"], [topic |-> "t2", expr |-> "a"]}
NoSub == [topic |-> "-", expr |-> "-"]

Inc(f, k) == IF k \in DOMAIN f THEN [f EXCEPT ![k] = @ + 1] ELSE f @@ (k :> 1)
Cnt(f, k) == IF k \in DOMAIN f THEN f[k] ELSE 0

VARIABLES
    p,              \* var p rocketmq.Producer
    pushConsumer,   \* var pushConsumer rocketmq.PushConsumer
    th,             \* per goroutine: the frame of its current / last call
    calls,          \* API calls begun so far
    nextId,         \* handles the library has constructed so far
    stats,          \* history: factory invocations and empty-cache observations
    first,          \* history: first handle each accessor returned without error
    lib,            \* history: Subscribe / Start calls per consumer handle
    hd,             \* the subscribe handler's frame
    mIn, mOut       \* CreatePublicMessage: arguments and result

vars == <<p, pushConsumer, th, calls, nextId, stats, first, lib, hd, mIn, mOut>>

\* ------------------------------------------------------------------ frames
IdleFrame ==
    [pc |-> "idle", op |-> "none", h |-> 0, args |-> NoArgs, sub |-> NoSub,
     c0 |-> Nil, sawNil |-> FALSE, tv |-> Nil, te |-> NoErr, err |-> NoErr,
     acc |-> [val |-> Nil, err |-> NoErr], val |-> Nil, trace |-> <<>>,
     ret |-> [res |-> NoResult, err |-> NoErr]]

HdIdle == [pc |-> "idle", batch |-> <<>>, calls |-> <<>>, returns |-> 0,
           ret |-> [result |-> "none", err |-> NoErr]]
NoMsgIn == [topic |-> "-", body |-> <<>>, tag |-> "", keys |-> <<>>,
            properties |-> [nil |-> TRUE, map |-> <<>>]]
NoMsgOut == [made |-> FALSE, Topic |-> "-", Body |-> <<>>,
             properties |-> [nil |-> TRUE, map |-> <<>>]]

InitShared ==
    /\ p = Nil
    /\ pushConsumer = Nil
    /\ th = [t \in Threads |-> IdleFrame]
    /\ calls = 0
    /\ nextId = 0
    /\ stats = [npCalls |-> 0, npOk |-> 0, nilP |-> 0,
                cpCalls |-> 0, cpOk |-> 0, nilC |-> 0]
    /\ first = [p |-> Nil, c |-> Nil]
    /\ lib = [subOk |-> <<>>, starts |-> <<>>, started |-> {}]
    /\ hd = HdIdle

Init ==
    /\ InitShared
    /\ mIn = NoMsgIn
    /\ mOut = NoMsgOut

Others == <<hd, mIn, mOut>>

\* ------------------------------------------------------------------ producer
\* SendMessage entered (line 180); getProducer is its first statement.
CallSendMessage(t, h, a) ==
    /\ th[t].pc = "idle"
    /\ calls' = calls + 1
    /\ th' = [th EXCEPT ![t] = [IdleFrame EXCEPT !.pc = "gp_check",
                  !.op = "SendMessage", !.h = h, !.args = a, !.c0 = p]]
    /\ UNCHANGED <<p, pushConsumer, nextId, stats, first, lib, Others>>

\* faulty variant: the cache is treated as keyed by the helper's options
GetProducerCheck_keyed(t) ==
    /\ th[t].pc = "gp_check"
    /\ IF p = Nil \/ p.opts # th[t].h
         THEN /\ th' = [th EXCEPT ![t].pc = "gp_new", ![t].sawNil = (p = Nil)]
              /\ stats' = [stats EXCEPT !.nilP = IF p = Nil THEN @ + 1 ELSE @]
         ELSE /\ th' = [th EXCEPT ![t].pc = "gp_ret"]
              /\ stats' = stats
    /\ UNCHANGED <<p, pushConsumer, calls, nextId, first, lib, Others>>

\* getProducer line 166: if p == nil
GetProducerCheck(t) ==
    /\ th[t].pc = "gp_check"
    /\ IF p = Nil
         THEN /\ th' = [th EXCEPT ![t].pc = "gp_new", ![t].sawNil = TRUE]
              /\ stats' = [stats EXCEPT !.nilP = @ + 1]
         ELSE /\ th' = [th EXCEPT ![t].pc = "gp_ret"]
              /\ stats' = stats
    /\ UNCHANGED <<p, pushConsumer, calls, nextId, first, lib, Others>>

\* NewProducer lines 124-151: rocketmq.NewProducer fails -> (nil, err);
\* otherwise p.Start() and return (p, err) whatever Start returned.
NewProducer(t) ==
    /\ th[t].pc = "gp_new"
    /\ \E out \in {"construct-fails", "start-fails", "ok"} :
         LET inst == [id |-> nextId + 1, opts |-> th[t].h] IN
         /\ nextId' = IF out = "construct-fails" THEN nextId ELSE nextId + 1
         /\ th' = [th EXCEPT ![t].pc = "gp_assign",
                       ![t].tv = IF out = "construct-fails" THEN Nil ELSE inst,
                       ![t].te = CASE out = "construct-fails" -> ErrConstruct
                                   [] out = "start-fails" -> ErrStart
                                   [] OTHER -> NoErr]
         /\ stats' = [stats EXCEPT !.npCalls = @ + 1,
                         !.npOk = IF out = "ok" THEN @ + 1 ELSE @]
    /\ UNCHANGED <<p, pushConsumer, calls, first, lib, Others>>

\* faulty variant: p, err := rh.NewProducer() declares a local p; the cache is not set
GetProducerAssign_shadow(t) ==
    /\ th[t].pc = "gp_assign"
    /\ th' = [th EXCEPT ![t].pc = "gp_ret", ![t].err = th[t].te]
    /\ UNCHANGED <<p, pushConsumer, calls, nextId, stats, first, lib, Others>>

\* getProducer line 168: p, err = rh.NewProducer()  (the assignment)
GetProducerAssign(t) ==
    /\ th[t].pc = "gp_assign"
    /\ p' = th[t].tv
    /\ th' = [th EXCEPT ![t].pc = "gp_ret", ![t].err = th[t].te]
    /\ UNCHANGED <<pushConsumer, calls, nextId, stats, first, lib, Others>>

\* getProducer lines 169-173: return nil, err / return p, nil (p read again)
GetProducerReturn(t) ==
    /\ th[t].pc = "gp_ret"
    /\ LET a == IF th[t].err # NoErr THEN [val |-> Nil, err |-> th[t].err]
                ELSE [val |-> p, err |-> NoErr] IN
       /\ th' = [th EXCEPT ![t].pc = "sm_got", ![t].acc = a]
       /\ first' = IF a.err = NoErr /\ first.p = Nil
                     THEN [first EXCEPT !.p = a.val] ELSE first
    /\ UNCHANGED <<p, pushConsumer, calls, nextId, stats, lib, Others>>

\* faulty variant: a failed SendSync is retried once
SendMessage_retry(t) ==
    /\ th[t].pc = "sm_got"
    /\ IF th[t].acc.err # NoErr
         THEN th' = [th EXCEPT ![t].pc = "idle",
                        ![t].ret = [res |-> NoResult, err |-> th[t].acc.err]]
         ELSE \E res \in {NoResult, "r1"}, e \in {NoErr, ErrSend} :
                LET ev == [ev |-> "SendSync", on |-> th[t].acc.val,
                           args |-> th[t].args, sub |-> NoSub, res |-> res,
                           err |-> e, onStarted |-> FALSE] IN
                th' = [th EXCEPT ![t].pc = "idle", ![t].val = th[t].acc.val,
                        ![t].trace = IF e # NoErr THEN <<ev, ev>> ELSE <<ev>>,
                        ![t].ret = [res |-> res, err |-> e]]
    /\ UNCHANGED <<p, pushConsumer, calls, nextId, stats, first, lib, Others>>

\* SendMessage lines 181-185 after getProducer returned; SendMessageByProducer
\* (line 177) is p.SendSync(ctx, msg), whose (result, error) is the library's.
SendMessage(t) ==
    /\ th[t].pc = "sm_got"
    /\ IF th[t].acc.err # NoErr
         THEN th' = [th EXCEPT ![t].pc = "idle",
                        ![t].ret = [res |-> NoResult, err |-> th[t].acc.err]]
         ELSE \E res \in {NoResult, "r1"}, e \in {NoErr, ErrSend} :
                th' = [th EXCEPT ![t].pc = "idle", ![t].val = th[t].acc.val,
                        ![t].trace = Append(@, [ev |-> "SendSync",
                              on |-> th[t].acc.val, args |-> th[t].args,
                              sub |-> NoSub, res |-> res, err |-> e,
                              onStarted |-> FALSE]),
                        ![t].ret = [res |-> res, err |-> e]]
    /\ UNCHANGED <<p, pushConsumer, calls, nextId, stats, first, lib, Others>>

\* ------------------------------------------------------------------ consumer
\* PushConsume entered (line 113); getPushConsumer is its first statement.
CallPushConsume(t, h, s) ==
    /\ th[t].pc = "idle"
    /\ calls' = calls + 1
    /\ th' = [th EXCEPT ![t] = [IdleFrame EXCEPT !.pc = "gc_check",
                  !.op = "PushConsume", !.h = h, !.sub = s, !.c0 = pushConsumer]]
    /\ UNCHANGED <<p, pushConsumer, nextId, stats, first, lib, Others>>

\* faulty variant: the check is missing, every call builds a consumer
GetPushConsumerCheck_always(t) ==
    /\ th[t].pc = "gc_check"
    /\ th' = [th EXCEPT ![t].pc = "gc_new", ![t].sawNil = (pushConsumer = Nil)]
    /\ stats' = [stats EXCEPT !.nilC = IF pushConsumer = Nil THEN @ + 1 ELSE @]
    /\ UNCHANGED <<p, pushConsumer, calls, nextId, first, lib, Others>>

\* getPushConsumer line 70: if pushConsumer == nil
GetPushConsumerCheck(t) ==
    /\ th[t].pc = "gc_check"
    /\ IF pushConsumer = Nil
         THEN /\ th' = [th EXCEPT ![t].pc = "gc_new", ![t].sawNil = TRUE]
              /\ stats' = [stats EXCEPT !.nilC = @ + 1]
         ELSE /\ th' = [th EXCEPT ![t].pc = "gc_ret"]
              /\ stats' = stats
    /\ UNCHANGED <<p, pushConsumer, calls, nextId, first, lib, Others>>

\* CreatePushConsumer lines 46-65: returns the library's (consumer, error)
\* unchanged; the consumer is not started.  On an error the first result is
\* whatever the library returned: nil, or a non-nil interface value.
CreatePushConsumer(t) ==
    /\ th[t].pc = "gc_new"
    /\ \E out \in {"fails-nil", "fails-value", "ok"} :
         LET inst == [id |-> nextId + 1, opts |-> th[t].h] IN
         /\ nextId' = IF out = "fails-nil" THEN nextId ELSE nextId + 1
         /\ th' = [th EXCEPT ![t].pc = "gc_assign",
                       ![t].tv = IF out = "fails-nil" THEN Nil ELSE inst,
                       ![t].te = IF out = "ok" THEN NoErr ELSE ErrCreate]
         /\ stats' = [stats EXCEPT !.cpCalls = @ + 1,
                         !.cpOk = IF out = "ok" THEN @ + 1 ELSE @]
    /\ UNCHANGED <<p, pushConsumer, calls, first, lib, Others>>

\* getPushConsumer line 72: pushConsumer, err = rh.CreatePushConsumer()
GetPushConsumerAssign(t) ==
    /\ th[t].pc = "gc_assign"
    /\ pushConsumer' = th[t].tv
    /\ th' = [th EXCEPT ![t].pc = "gc_ret", ![t].err = th[t].te]
    /\ UNCHANGED <<p, calls, nextId, stats, first, lib, Others>>

\* getPushConsumer lines 73-77
GetPushConsumerReturn(t) ==
    /\ th[t].pc = "gc_ret"
    /\ LET a == IF th[t].err # NoErr THEN [val |-> Nil, err |-> th[t].err]
                ELSE [val |-> pushConsumer, err |-> NoErr] IN
       /\ th' = [th EXCEPT ![t].pc = "pc_got", ![t].acc = a]
       /\ first' = IF a.err = NoErr /\ first.c = Nil
                     THEN [first EXCEPT !.c = a.val] ELSE first
    /\ UNCHANGED <<p, pushConsumer, calls, nextId, stats, lib, Others>>

\* PushConsume lines 114-121 after getPushConsumer returned.
PushConsume(t) ==
    /\ th[t].pc = "pc_got"
    /\ IF th[t].acc.err # NoErr
         THEN th' = [th EXCEPT ![t].pc = "idle",
                        ![t].ret = [res |-> NoResult, err |-> th[t].acc.err]]
         ELSE th' = [th EXCEPT ![t].pc = "sub", ![t].val = th[t].acc.val]
    /\ UNCHANGED <<p, pushConsumer, calls, nextId, stats, first, lib, Others>>

\* PushConsumeByConsumer called directly (line 80) with a consumer of the
\* caller's own, e.g. one made by CreatePushConsumer.
CallPushConsumeByConsumer(t, h, s) ==
    /\ th[t].pc = "idle"
    /\ calls' = calls + 1
    /\ th' = [th EXCEPT ![t] = [IdleFrame EXCEPT !.pc = "sub",
                  !.op = "PushConsumeByConsumer", !.h = h, !.sub = s,
                  !.val = ExtConsumer]]
    /\ UNCHANGED <<p, pushConsumer, nextId, stats, first, lib, Others>>

\* faulty variant: the error of Subscribe is dropped and Start is called anyway
PushConsumeByConsumerSubscribe_ignore(t) ==
    /\ th[t].pc = "sub"
    /\ \E e \in {NoErr, ErrSubscribe} :
         /\ th' = [th EXCEPT
                ![t].pc = "start",
                ![t].trace = Append(@, [ev |-> "Subscribe", on |-> th[t].val,
                       args |-> NoArgs, sub |-> th[t].sub,
                       res |-> NoResult, err |-> e,
                       onStarted |-> th[t].val.id \in lib.started])]
         /\ lib' = IF e = NoErr
                     THEN [lib EXCEPT !.subOk = Inc(@, th[t].val.id)] ELSE lib
    /\ UNCHANGED <<p, pushConsumer, calls, nextId, stats, first, Others>>

\* PushConsumeByConsumer lines 84-108: c.Subscribe(topic, selector, handler);
\* an error is returned at once.
PushConsumeByConsumerSubscribe(t) ==
    /\ th[t].pc = "sub"
    /\ \E e \in {NoErr, ErrSubscribe} :
         /\ th' = [th EXCEPT
                ![t].pc = IF e # NoErr THEN "idle" ELSE "start",
                ![t].trace = Append(@, [ev |-> "Subscribe", on |-> th[t].val,
                       args |-> NoArgs, sub |-> th[t].sub,
                       res |-> NoResult, err |-> e,
                       onStarted |-> th[t].val.id \in lib.started]),
                ![t].ret = IF e # NoErr THEN [res |-> NoResult, err |-> e] ELSE @]
         /\ lib' = IF e = NoErr
                     THEN [lib EXCEPT !.subOk = Inc(@, th[t].val.id)] ELSE lib
    /\ UNCHANGED <<p, pushConsumer, calls, nextId, stats, first, Others>>

\* faulty variant: Start is skipped on a consumer that was started before
PushConsumeByConsumerStart_once(t) ==
    /\ th[t].pc = "start"
    /\ IF th[t].val.id \in lib.started
         THEN /\ th' = [th EXCEPT ![t].pc = "idle",
                        ![t].ret = [res |-> NoResult, err |-> NoErr]]
              /\ lib' = lib
         ELSE \E e \in {NoErr, ErrStart} :
              /\ th' = [th EXCEPT ![t].pc = "idle",
                     ![t].trace = Append(@, [ev |-> "Start", on |-> th[t].val,
                            args |-> NoArgs, sub |-> th[t].sub,
                            res |-> NoResult, err |-> e,
                            onStarted |-> th[t].val.id \in lib.started]),
                     ![t].ret = [res |-> NoResult, err |-> e]]
              /\ lib' = [lib EXCEPT !.starts = Inc(@, th[t].val.id),
                            !.started = IF e = NoErr THEN @ \cup {th[t].val.id} ELSE @]
    /\ UNCHANGED <<p, pushConsumer, calls, nextId, stats, first, Others>>

\* PushConsumeByConsumer line 110: return c.Start()
PushConsumeByConsumerStart(t) ==
    /\ th[t].pc = "start"
    /\ \E e \in {NoErr, ErrStart} :
         /\ th' = [th EXCEPT ![t].pc = "idle",
                ![t].trace = Append(@, [ev |-> "Start", on |-> th[t].val,
                       args |-> NoArgs, sub |-> th[t].sub,
                       res |-> NoResult, err |-> e,
                       onStarted |-> th[t].val.id \in lib.started]),
                ![t].ret = [res |-> NoResult, err |-> e]]
         /\ lib' = [lib EXCEPT !.starts = Inc(@, th[t].val.id),
                       !.started = IF e = NoErr THEN @ \cup {th[t].val.id} ELSE @]
    /\ UNCHANGED <<p, pushConsumer, calls, nextId, stats, first, Others>>

\* ------------------------------------------------------------------ specs
Next ==
    \/ \E h \in Helpers, a \in SendArgs :
           calls < MaxCalls /\ CallSendMessage(Main, h, a)
    \/ GetProducerCheck(Main)
    \/ NewProducer(Main)
    \/ GetProducerAssign(Main)
    \/ GetProducerReturn(Main)
    \/ SendMessage(Main)
    \/ \E h \in Helpers, s \in SubArgs :
           calls < MaxCalls /\ CallPushConsume(Main, h, s)
    \/ GetPushConsumerCheck(Main)
    \/ CreatePushConsumer(Main)
    \/ GetPushConsumerAssign(Main)
    \/ GetPushConsumerReturn(Main)
    \/ PushConsume(Main)
    \/ \E h \in Helpers, s \in SubArgs :
           calls < MaxCalls /\ CallPushConsumeByConsumer(Main, h, s)
    \/ PushConsumeByConsumerSubscribe(Main)
    \/ PushConsumeByConsumerStart(Main)

Spec == Init /\ [][Next]_vars

\* Goroutine t calls through a helper of its own; the arguments are fixed,
\* since no read or write of the caches depends on them.
HelperOf(t) == ((t - 1) % NumHelpers) + 1
ConcSendArgs == [ctx |-> "ctx1", msg |-> "m1"]
ConcSubArgs == [topic |-> "t1", expr |-> "*"]

NextConc ==
    \/ \E t \in Threads :
           calls < ConcCalls /\ CallSendMessage(t, HelperOf(t), ConcSendArgs)
    \/ \E t \in Threads : GetProducerCheck(t)
    \/ \E t \in Threads : NewProducer(t)
    \/ \E t \in Threads : GetProducerAssign(t)
    \/ \E t \in Threads : GetProducerReturn(t)
    \/ \E t \in Threads : SendMessage(t)
    \/ \E t \in Threads :
           calls < ConcCalls /\ CallPushConsume(t, HelperOf(t), ConcSubArgs)
    \/ \E t \in Threads : GetPushConsumerCheck(t)
    \/ \E t \in Threads : CreatePushConsumer(t)
    \/ \E t \in Threads : GetPushConsumerAssign(t)
    \/ \E t \in Threads : GetPushConsumerReturn(t)
    \/ \E t \in Threads : PushConsume(t)
    \/ \E t \in Threads : PushConsumeByConsumerSubscribe(t)
    \/ \E t \in Threads : PushConsumeByConsumerStart(t)

SpecConc == Init /\ [][NextConc]_vars

\* ------------------------------------------------------------------ handler
\* The function PushConsumeByConsumer passes to Subscribe (lines 84-105).
\* The library calls it with a batch; onMessage is the caller's function and
\* its result on each invocation is the caller's choice.
ConsumeSuccess == "ConsumeSuccess"
ConsumeRetryLater == "ConsumeRetryLater"
Msgs == {"msgA", "msgB"}
OnMessageErrs == {"ErrX", "ErrY"}
Batches == UNION {[1..n -> Msgs] : n \in 0..MaxBatch}

\* the library invokes the handler (line 84)
Deliver(batch) ==
    /\ hd.pc \in {"idle", "done"}
    /\ hd' = [HdIdle EXCEPT !.pc = "loop", !.batch = batch]
    /\ UNCHANGED <<p, pushConsumer, th, calls, nextId, stats, first, lib, mIn, mOut>>

\* faulty variant: a failure is remembered and the loop goes on to the next message
HandlerOnMessage_continue ==
    /\ hd.pc = "loop"
    /\ Len(hd.calls) < Len(hd.batch)
    /\ LET i == Len(hd.calls) + 1 IN
       \E e \in {NoErr} \cup OnMessageErrs :
         hd' = [hd EXCEPT !.calls = Append(@, [idx |-> i, msg |-> hd.batch[i],
                                               err |-> e])]
    /\ UNCHANGED <<p, pushConsumer, th, calls, nextId, stats, first, lib, mIn, mOut>>

\* one iteration of the range loop, lines 85-103: onMessage(msg), and on an
\* error return ConsumeRetryLater with it (line 101)
HandlerOnMessage ==
    /\ hd.pc = "loop"
    /\ Len(hd.calls) < Len(hd.batch)
    /\ LET i == Len(hd.calls) + 1 IN
       \E e \in {NoErr} \cup OnMessageErrs :
         LET log == Append(hd.calls, [idx |-> i, msg |-> hd.batch[i], err |-> e]) IN
         hd' = IF e # NoErr
                 THEN [hd EXCEPT !.calls = log, !.pc = "done",
                          !.returns = @ + 1,
                          !.ret = [result |-> ConsumeRetryLater, err |-> e]]
                 ELSE [hd EXCEPT !.calls = log]
    /\ UNCHANGED <<p, pushConsumer, th, calls, nextId, stats, first, lib, mIn, mOut>>

\* faulty variant: the loop stops one message short
HandlerReturn_short ==
    /\ hd.pc = "loop"
    /\ Len(hd.calls) >= Len(hd.batch) - 1
    /\ hd' = [hd EXCEPT !.pc = "done", !.returns = @ + 1,
                 !.ret = [result |-> ConsumeSuccess, err |-> NoErr]]
    /\ UNCHANGED <<p, pushConsumer, th, calls, nextId, stats, first, lib, mIn, mOut>>

\* the loop is exhausted: return consumer.ConsumeSuccess, nil (line 104)
HandlerReturn ==
    /\ hd.pc = "loop"
    /\ Len(hd.calls) = Len(hd.batch)
    /\ hd' = [hd EXCEPT !.pc = "done", !.returns = @ + 1,
                 !.ret = [result |-> ConsumeSuccess, err |-> NoErr]]
    /\ UNCHANGED <<p, pushConsumer, th, calls, nextId, stats, first, lib, mIn, mOut>>

NextHandler ==
    \/ \E b \in Batches : Deliver(b)
    \/ HandlerOnMessage
    \/ HandlerReturn

SpecHandler == Init /\ [][NextHandler]_vars

\* ------------------------------------------------------------------ message
\* primitive.Message as CreatePublicMessage uses it (lines 154-160).  The
\* library keeps the tag and the keys in the message's property map, under
\* the names PropertyTags and PropertyKeys; WithProperty ignores an empty
\* key or value; WithKeys stores the keys each followed by the separator.
PropertyTags == "TAGS"
PropertyKeys == "KEYS"
PropertyKeySeparator == " "
NilMap == [nil |-> TRUE, map |-> <<>>]

Put(m, k, v) == [x \in DOMAIN m \cup {k} |-> IF x = k THEN v ELSE m[x]]

\* msg.WithProperties(properties), line 158: the map is replaced
WithProperties(msg, properties) == [msg EXCEPT !.properties = properties]

WithProperty(msg, key, value) ==
    IF key = "" \/ value = "" THEN msg
    ELSE [msg EXCEPT !.properties =
             [nil |-> FALSE, map |-> Put(msg.properties.map, key, value)]]

\* msg.WithTag(tag), line 160
WithTag(msg, tag) == WithProperty(msg, PropertyTags, tag)

RECURSIVE JoinKeys(_)
JoinKeys(keys) ==
    IF keys = <<>> THEN ""
    ELSE Head(keys) \o PropertyKeySeparator \o JoinKeys(Tail(keys))

\* .WithKeys(keys), line 160
WithKeys(msg, keys) == WithProperty(msg, PropertyKeys, JoinKeys(keys))

GetProperty(msg, key) ==
    IF key \in DOMAIN msg.properties.map THEN msg.properties.map[key] ELSE ""
GetTags(msg) == GetProperty(msg, PropertyTags)
GetKeys(msg) == GetProperty(msg, PropertyKeys)

\* faulty variant: WithProperties is called last and replaces the map
CreatePublicMessage_last(topic, body, tag, keys, properties) ==
    LET msg == [made |-> TRUE, Topic |-> topic, Body |-> body,
                properties |-> NilMap] IN
    WithProperties(WithKeys(WithTag(msg, tag), keys), properties)

CreatePublicMessage(topic, body, tag, keys, properties) ==
    LET msg == [made |-> TRUE, Topic |-> topic, Body |-> body,
                properties |-> NilMap] IN
    WithKeys(WithTag(WithProperties(msg, properties), tag), keys)

PropNames == {PropertyTags, PropertyKeys, "x"}
PropValues == {"v", "a"}
PropertyMaps ==
    {NilMap} \cup
    {[nil |-> FALSE, map |-> f] : f \in UNION {[D -> PropValues] : D \in SUBSET PropNames}}
KeyLists == UNION {[1..n -> {"k1", ""}] : n \in 0..MaxKeys}
MsgInputs ==
    [topic : {"t1", "t2"}, body : {<<>>, <<7>>}, tag : {"", "a"},
     keys : KeyLists, properties : PropertyMaps]

InitMsg ==
    /\ InitShared
    /\ mIn \in MsgInputs
    /\ mOut = NoMsgOut

CallCreatePublicMessage ==
    /\ ~mOut.made
    /\ mOut' = CreatePublicMessage(mIn.topic, mIn.body, mIn.tag, mIn.keys,
                                   mIn.properties)
    /\ UNCHANGED <<p, pushConsumer, th, calls, nextId, stats, first, lib, hd, mIn>>

NextMsg == CallCreatePublicMessage

SpecMsg == InitMsg /\ [][NextMsg]_vars

\* ------------------------------------------------------------------ claims
InProducerFactory(f) == f.pc \in {"gp_new", "gp_assign"}
InConsumerFactory(f) == f.pc \in {"gc_new", "gc_assign"}
\* the frame holds what the accessor returned
GotProducer(f) == f.op = "SendMessage" /\ f.pc \in {"sm_got", "idle"}
GotConsumer(f) == f.op = "PushConsume" /\ f.pc \in {"pc_got", "sub", "start", "idle"}

\* C1 (as claimed): whenever getProducer has returned an error, because
\* NewProducer failed in constructing or in starting the client, the cache p
\* is nil, so that the next call invokes the factory again.
C1_CacheEmptyAfterFailure ==
    (th[Main].pc = "sm_got" /\ th[Main].acc.err # NoErr) => p = Nil

\* C2: in one goroutine, every return of an accessor without error yields the
\* handle of its first such return, the factory is not entered once the
\* accessor has returned a handle, and it succeeds at most once per accessor.
C2_CachedInstanceReused ==
    LET f == th[Main] IN
    /\ stats.npOk <= 1
    /\ stats.cpOk <= 1
    /\ (f.pc = "sm_got" /\ f.acc.err = NoErr) => f.acc.val = first.p /\ first.p # Nil
    /\ (f.pc = "pc_got" /\ f.acc.err = NoErr) => f.acc.val = first.c /\ first.c # Nil
    /\ InProducerFactory(f) => first.p = Nil
    /\ InConsumerFactory(f) => first.c = Nil

C2_Witness ==
    LET f == th[Main] IN
    /\ f.pc = "sm_got" /\ f.acc.err = NoErr
    /\ ~f.sawNil
    /\ f.acc.val = first.p
    /\ stats.npOk = 1
    /\ calls >= 2

\* C3: the handler calls onMessage on the messages in batch order, once each,
\* makes no call after a failed one, and on the first failure (message k)
\* returns ConsumeRetryLater with that call's error, once.
C3_FirstFailureStopsBatch ==
    LET n == Len(hd.calls) IN
    /\ n <= Len(hd.batch)
    /\ \A i \in 1..n : hd.calls[i].idx = i /\ hd.calls[i].msg = hd.batch[i]
    /\ \A i \in 1..(n - 1) : hd.calls[i].err = NoErr
    /\ (n >= 1 /\ hd.calls[n].err # NoErr) =>
          /\ hd.pc = "done"
          /\ hd.returns = 1
          /\ hd.ret = [result |-> ConsumeRetryLater, err |-> hd.calls[n].err]

C3_Witness ==
    LET n == Len(hd.calls) IN
    /\ hd.pc = "done"
    /\ n >= 2 /\ n < Len(hd.batch)
    /\ hd.calls[n].err = "ErrY"
    /\ hd.ret.result = ConsumeRetryLater

\* C4: when onMessage returns nil on every message of the batch, the handler
\* has called it once per message in order and returns (ConsumeSuccess, nil)
\* once; ConsumeSuccess is never returned for a batch with a failed call.
C4_AllSucceedAcknowledged ==
    LET n == Len(hd.calls)
        allOk == \A i \in 1..n : hd.calls[i].err = NoErr IN
    /\ hd.returns <= 1
    /\ (hd.pc = "done" /\ allOk) =>
          /\ n = Len(hd.batch)
          /\ \A i \in 1..n : hd.calls[i].idx = i /\ hd.calls[i].msg = hd.batch[i]
          /\ hd.ret = [result |-> ConsumeSuccess, err |-> NoErr]
          /\ hd.returns = 1
    /\ hd.ret.result = ConsumeSuccess =>
          hd.pc = "done" /\ allOk /\ n = Len(hd.batch)

C4_Witness ==
    /\ hd.pc = "done"
    /\ Len(hd.batch) >= 2
    /\ Len(hd.calls) = Len(hd.batch)
    /\ hd.ret = [result |-> ConsumeSuccess, err |-> NoErr]

C6_SendForwardsVerbatim ==
    LET f == th[Main] IN
    f.op = "SendMessage" =>
        /\ Len(f.trace) <= 1
        /\ f.pc # "idle" => f.trace = <<>>
        /\ (f.pc = "idle" /\ f.acc.err # NoErr) =>
              f.trace = <<>> /\ f.ret = [res |-> NoResult, err |-> f.acc.err]
        /\ (f.pc = "idle" /\ f.acc.err = NoErr) =>
              /\ Len(f.trace) = 1
              /\ f.trace[1].ev = "SendSync"
              /\ f.trace[1].on = f.acc.val
              /\ f.trace[1].args = f.args
              /\ f.ret = [res |-> f.trace[1].res, err |-> f.trace[1].err]

C6_Witness ==
    LET f == th[Main] IN
    /\ f.op = "SendMessage" /\ f.pc = "idle"
    /\ Len(f.trace) = 1
    /\ f.ret = [res |-> "r1", err |-> ErrSend]

\* C7: a PushConsume / PushConsumeByConsumer call calls Subscribe first and
\* Start only after Subscribe returned nil, both on the same consumer; a
\* failed accessor means neither is called, a failed Subscribe means Start is
\* not called, and the call returns the first error met, else Start's result.
C7_SubscribeThenStart ==
    LET f == th[Main]
        n == Len(f.trace) IN
    f.op \in {"PushConsume", "PushConsumeByConsumer"} =>
        /\ n <= 2
        /\ n >= 1 => /\ f.trace[1].ev = "Subscribe"
                     /\ f.trace[1].on = f.val
                     /\ f.trace[1].sub = f.sub
        /\ n = 2 => /\ f.trace[2].ev = "Start"
                    /\ f.trace[2].on = f.val
                    /\ f.trace[1].err = NoErr
        /\ f.op = "PushConsume" /\ n >= 1 => f.acc.err = NoErr /\ f.val = f.acc.val
        /\ f.pc = "idle" =>
              IF f.acc.err # NoErr THEN n = 0 /\ f.ret.err = f.acc.err
              ELSE IF n = 1 THEN f.trace[1].err # NoErr /\ f.ret.err = f.trace[1].err
              ELSE n = 2 /\ f.ret.err = f.trace[2].err

C7_Witness ==
    LET f == th[Main] IN
    /\ f.op = "PushConsume" /\ f.pc = "idle"
    /\ Len(f.trace) = 2
    /\ f.ret.err = ErrStart

\* C8: two callers of one accessor hold different handles only through the
\* unguarded check-then-set: then at least two calls saw the cache empty and
\* the factory was invoked at least twice.  The witness is the interleaving.
C8_RaceDuplicates ==
    \A t1, t2 \in Threads :
        LET f == th[t1]
            g == th[t2] IN
        /\ (GotProducer(f) /\ GotProducer(g) /\ f.acc.err = NoErr
              /\ g.acc.err = NoErr /\ f.acc.val # g.acc.val)
             => stats.nilP >= 2 /\ stats.npCalls >= 2
        /\ (GotConsumer(f) /\ GotConsumer(g) /\ f.acc.err = NoErr
              /\ g.acc.err = NoErr /\ f.acc.val # g.acc.val)
             => stats.nilC >= 2 /\ stats.cpCalls >= 2

C8_Witness ==
    \E t1, t2 \in Threads :
        LET f == th[t1]
            g == th[t2] IN
        /\ t1 # t2
        /\ GotConsumer(f) /\ GotConsumer(g)
        /\ f.sawNil /\ g.sawNil
        /\ f.acc.err = NoErr /\ g.acc.err = NoErr
        /\ f.acc.val # Nil /\ g.acc.val # Nil
        /\ f.acc.val # g.acc.val
        /\ stats.cpCalls = 2 /\ stats.cpOk = 2

\* C9: a call that finds a handle in the cache returns that handle without
\* error, whichever helper makes the call, does not enter the factory and
\* leaves the cache as it was.
C9_CacheNotKeyedByOptions ==
    LET f == th[Main] IN
    /\ (f.op = "SendMessage" /\ f.c0 # Nil) =>
          /\ ~InProducerFactory(f)
          /\ p = f.c0
          /\ GotProducer(f) => f.acc = [val |-> f.c0, err |-> NoErr]
    /\ (f.op = "PushConsume" /\ f.c0 # Nil) =>
          /\ ~InConsumerFactory(f)
          /\ pushConsumer = f.c0
          /\ GotConsumer(f) => f.acc = [val |-> f.c0, err |-> NoErr]

C9_Witness ==
    LET f == th[Main] IN
    /\ f.op = "SendMessage" /\ f.pc = "sm_got"
    /\ f.c0 # Nil
    /\ f.acc.val = f.c0
    /\ f.acc.val.opts # f.h

\* C10: every call whose Subscribe returned nil calls Start: between calls the
\* Starts on a consumer equal the successful Subscribes on it, all PushConsume
\* calls act on the one cached consumer, and a Subscribe issued to a started
\* consumer is followed by one more Start on it.
C10_StartOnEveryCall ==
    LET f == th[Main]
        c == pushConsumer.id
        ids == DOMAIN lib.subOk \cup DOMAIN lib.starts IN
    /\ ids \subseteq {c, ExtConsumer.id}
    /\ lib.started \subseteq ids
    /\ \A i \in ids :
          Cnt(lib.starts, i) =
              Cnt(lib.subOk, i) - (IF f.pc = "start" /\ f.val.id = i THEN 1 ELSE 0)
    /\ (f.op = "PushConsume" /\ Len(f.trace) = 2 /\ f.trace[1].onStarted) =>
          Cnt(lib.starts, c) >= 2

C10_Witness ==
    LET f == th[Main] IN
    /\ f.op = "PushConsume" /\ f.pc = "idle"
    /\ Len(f.trace) = 2
    /\ f.trace[1].onStarted
    /\ f.val = pushConsumer
    /\ Cnt(lib.starts, pushConsumer.id) = 2
    /\ Cnt(lib.subOk, pushConsumer.id) = 2
====
